---- MODULE Spec2Model ----
(***************************************************************************)
(* Duo-taire game room (src/src/rooms/DuoTaireRoom.ts) with its state      *)
(* schemas (DuoTaireState.ts, PlayerSchema.ts, CardSchema).                *)
(*                                                                         *)
(* The variable room is the DuoTaireRoom object: the fields of this.state  *)
(* plus the private timers.  Every message handler, lifecycle callback and *)
(* clock callback is one action.  Of the time stamps (Date.now()) only the *)
(* time left to the end of the ZAP window is kept.                         *)
(*                                                                         *)
(* The variable server is the relay server of src/server.js (the registry  *)
(* of create_room / join_room and the matchmaking queue of find_match); the *)
(* variable matchmaking is the MatchmakingRoom of DuoTaireRoom.ts, whose    *)
(* tryMatch is suspended at each await.                                    *)
(***************************************************************************)
EXTENDS Integers, Sequences, FiniteSets, TLC

VARIABLES
    numRanks,    \* RANKS.length of this run (13 in the source, scaled down)
    room,        \* the DuoTaireRoom: this.state.*, the Delayed timers, and the
                 \* messages the latest callback passed to this.broadcast
    server,      \* the relay server of server.js: rooms, matchmakingQueue, the
                 \* slots of the connections, and Date.now()
    matchmaking  \* the MatchmakingRoom: waitingPlayers, state.playersWaiting, the
                 \* suspended calls of tryMatch, and the messages sent to clients

vars == <<numRanks, room, server, matchmaking>>

----
\* Bounds of the model
MaxRanks   == 2   \* deck sizes checked: 4 * r cards for r up to MaxRanks
NumCenterPiles == 2  \* center piles (5 in the source, scaled with the deck)
NumSeeds   == 1   \* random sources tried by the shuffle
MaxVersion == 6   \* no callback is delivered once stateVersion reaches it
MaxTicks   == 1   \* simulation-interval ticks that accumulate turn time
MaxHand    == 3   \* cards in the deck and discard of the player that drawCard is tried on
NumConns   == 3   \* WebSocket connections to the relay server
NumCodes   == 2   \* room codes that Math.random can produce
MaxSweeps  == 1   \* periods of the cleanup age that pass
MaxEvents  == 4   \* messages, socket events and timer callbacks of the relay server
NumClients == 3   \* clients that join the matchmaking room
MaxTries   == 2   \* calls of tryMatch that find two waiting players

\* Program constants
NumFoundations == 4
ZAP_GRACE_PERIOD == 3000   \* ms
CODE_LENGTH == 6
STALE_AFTER == 1800000   \* 30 * 60 * 1000 ms
SWEEP_INTERVAL == 60000   \* ms
SUITS == <<"S", "C", "H", "D">>
AllRanks == <<"A", "2", "3", "4", "5", "6", "7", "8", "9", "10", "J", "Q", "K">>

RANKS == SubSeq(AllRanks, 1, numRanks)

\* deck sizes that cover the deal of two cards to every center pile, as the
\* 52 cards of the source cover its 10
DealtRanks == {r \in 1..MaxRanks : Len(SUITS) * r >= 2 * NumCenterPiles}

\* null / undefined card
NoCard == [suit |-> "", rank |-> ""]

Seats == {0, 1}
FromTypes == {"drawn", "center"}
ToTypes == {"foundation", "center", "opponentDiscard", "ownDiscard"}
\* indices a client may send: the valid ones and -1 for one out of range
PileIndices == -1 .. (NumCenterPiles - 1)
FoundationIndices == -1 .. (NumFoundations - 1)
\* fromIndex is read for a center source only, toIndex for a pile destination only
FromIndices(fromType) == IF fromType = "center" THEN PileIndices ELSE {0}
ToIndices(toType) ==
    IF toType = "foundation" THEN FoundationIndices
    ELSE IF toType = "center" THEN PileIndices
    ELSE {0}
\* card positions a client may name in a pile
CardIndices == 0 .. MaxRanks

----
\* CardSchema

getRankValue(card) ==
    IF \E i \in 1..Len(AllRanks) : AllRanks[i] = card.rank
    THEN CHOOSE i \in 1..Len(AllRanks) : AllRanks[i] = card.rank
    ELSE 0

getColor(card) == IF card.suit = "H" \/ card.suit = "D" THEN "red" ELSE "black"

\* canPlaceOn without the test of the colours
canPlaceOn_AnyColour(card, other) ==
    IF other = NoCard \/ other.rank = "" THEN TRUE
    ELSE getRankValue(card) = getRankValue(other) - 1

canPlaceOn(card, other) ==
    IF other = NoCard \/ other.rank = "" THEN TRUE
    ELSE /\ getRankValue(card) = getRankValue(other) - 1
         /\ getColor(card) # getColor(other)

\* canPlaceOnFoundation without the test of the suit
canPlaceOnFoundation_AnySuit(card, foundationTop, foundationSuit) ==
    IF foundationTop = NoCard THEN card.rank = "A"
    ELSE getRankValue(card) = getRankValue(foundationTop) + 1

canPlaceOnFoundation(card, foundationTop, foundationSuit) ==
    IF card.suit # foundationSuit THEN FALSE
    ELSE IF foundationTop = NoCard THEN card.rank = "A"
    ELSE getRankValue(card) = getRankValue(foundationTop) + 1

Abs(x) == IF x < 0 THEN -x ELSE x

canPlayOnOpponentDiscard(card, discardTop) ==
    IF discardTop = NoCard \/ discardTop.rank = "" THEN FALSE
    ELSE IF card.rank = discardTop.rank /\ card.suit # discardTop.suit THEN TRUE
    ELSE IF card.suit = discardTop.suit
         THEN Abs(getRankValue(card) - getRankValue(discardTop)) = 1
    ELSE FALSE

----
\* Sequence helpers (ArraySchema push / pop / top)

Top(cards) == IF Len(cards) = 0 THEN NoCard ELSE cards[Len(cards)]
Pop(cards) == SubSeq(cards, 1, Len(cards) - 1)

\* CenterPileSchema.getTopCard, FoundationSchema.getTopCard, PlayerSchema.getDiscardTop
getTopCard(pile) == Top(pile.cards)
getDiscardTop(player) == Top(player.discard)

\* FoundationSchema.isComplete: a full suit (13 = RANKS.length in the source)
isComplete(foundation) == Len(foundation.cards) = numRanks

----
\* DuoTaireState

\* new DuoTaireState() / initializePiles, plus the room's private fields
NewRoom ==
    [ roomCode         |-> <<>>,
      phase            |-> "waiting",
      currentPlayer    |-> 0,
      gameOver         |-> FALSE,
      winner           |-> -1,
      drawnCard        |-> NoCard,
      hasMovedThisTurn |-> FALSE,
      zapGracePeriod   |-> FALSE,
      zapGraceEndTime  |-> 0,        \* zapGraceEndTime - Date.now() in ms while the
                                     \* window's timeout is pending, 0 from the deadline on
      lastMoveCard     |-> NoCard,
      lastMoveType     |-> "",
      players          |-> <<>>,
      centerPiles      |-> [i \in 1..NumCenterPiles |-> [cards |-> <<>>]],
      foundations      |-> [i \in 1..NumFoundations |-> [suit |-> SUITS[i], cards |-> <<>>]],
      stateVersion     |-> 0,
      zapTimer         |-> FALSE,    \* a zap expiry timeout is pending
      startTimer       |-> FALSE,    \* the delayed game_started broadcast is pending
      broadcasts       |-> <<>> ]

\* new PlayerSchema(index, sessionId)
NewPlayer(index) ==
    [index |-> index, connected |-> TRUE, timer |-> 0, deck |-> <<>>, discard |-> <<>>]

incrementVersion(r) == [r EXCEPT !.stateVersion = @ + 1]

\* position in r.players of the player with that index, 0 for null
getPlayerByIndex(r, index) ==
    IF \E k \in 1..Len(r.players) : r.players[k].index = index
    THEN CHOOSE k \in 1..Len(r.players) : r.players[k].index = index
    ELSE 0

getOpponent(r) == getPlayerByIndex(r, 1 - r.currentPlayer)

\* checkWin that is satisfied by one complete foundation
checkWin_AnyFoundation(r) == \E i \in 1..NumFoundations : isComplete(r.foundations[i])

checkWin(r) == \A i \in 1..NumFoundations : isComplete(r.foundations[i])

----
\* drawCard that never recycles the discard
drawCard_NoRecycle(player) ==
    IF Len(player.deck) = 0 THEN [card |-> NoCard, player |-> player]
    ELSE [card |-> Top(player.deck), player |-> [player EXCEPT !.deck = Pop(player.deck)]]

\* PlayerSchema.drawCard: the card drawn (NoCard for null) and the player afterwards
drawCard(player) ==
    IF Len(player.deck) = 0 /\ Len(player.discard) <= 1
    THEN [card |-> NoCard, player |-> player]
    ELSE LET n == Len(player.discard)
             recycled == IF Len(player.deck) = 0
                         THEN [player EXCEPT !.deck = SubSeq(player.discard, 1, n - 1),
                                             !.discard = <<player.discard[n]>>]
                         ELSE player
         IN [card |-> Top(recycled.deck),
             player |-> [recycled EXCEPT !.deck = Pop(recycled.deck)]]

addToDiscard(player, card) == [player EXCEPT !.discard = Append(@, card)]

----
\* DuoTaireRoom: helpers.  Each takes the room r and gives the room afterwards.

Broadcast(r, msg) == [r EXCEPT !.broadcasts = Append(@, msg)]

startZapGracePeriod(r) == [r EXCEPT !.zapGracePeriod = TRUE,
                                   !.zapGraceEndTime = ZAP_GRACE_PERIOD,
                                   !.zapTimer = TRUE]

\* closeZapGracePeriod that leaves the timeout pending
closeZapGracePeriod_FlagOnly(r) == [r EXCEPT !.zapGracePeriod = FALSE]

\* closeZapGracePeriod that clears the timeout only
closeZapGracePeriod_TimerOnly(r) == [r EXCEPT !.zapTimer = FALSE]

\* the end time of a closed window is read by nothing and is not kept
closeZapGracePeriod(r) == [r EXCEPT !.zapGracePeriod = FALSE,
                                    !.zapGraceEndTime = 0,
                                    !.zapTimer = FALSE]

endTurn(r) == [r EXCEPT !.currentPlayer = 1 - r.currentPlayer,
                        !.hasMovedThisTurn = FALSE]

\* endGame that does not set gameOver
endGame_PhaseOnly(r, winnerIndex, reason) ==
    Broadcast(incrementVersion([r EXCEPT !.phase = "finished",
                                         !.winner = winnerIndex]),
              [type |-> "game_over", winner |-> winnerIndex, reason |-> reason])

endGame(r, winnerIndex, reason) ==
    Broadcast(incrementVersion([r EXCEPT !.phase = "finished",
                                         !.gameOver = TRUE,
                                         !.winner = winnerIndex]),
              [type |-> "game_over", winner |-> winnerIndex, reason |-> reason])

getCardFromSource(r, fromType, fromIndex) ==
    IF fromType = "drawn" THEN r.drawnCard
    ELSE IF fromType = "center" /\ fromIndex >= 0 /\ fromIndex < NumCenterPiles
         THEN getTopCard(r.centerPiles[fromIndex + 1])
    ELSE NoCard

\* removeCardFromSource that leaves the drawn card in its slot
removeCardFromSource_KeepsDrawn(r, fromType, fromIndex) ==
    IF fromType = "center" /\ fromIndex >= 0 /\ fromIndex < NumCenterPiles
    THEN [r EXCEPT !.centerPiles[fromIndex + 1].cards = Pop(@)]
    ELSE r

removeCardFromSource(r, fromType, fromIndex) ==
    IF fromType = "drawn" THEN [r EXCEPT !.drawnCard = NoCard]
    ELSE IF fromType = "center" /\ fromIndex >= 0 /\ fromIndex < NumCenterPiles
         THEN [r EXCEPT !.centerPiles[fromIndex + 1].cards = Pop(@)]
    ELSE r

\* The playTo* methods give [success, log, room]
Failed(r, log) == [success |-> FALSE, log |-> log, room |-> r]
Played(r) == [success |-> TRUE, log |-> "played", room |-> r]

playToFoundation(r, card, foundationIndex, fromType, fromIndex) ==
    IF foundationIndex < 0 \/ foundationIndex >= NumFoundations THEN Failed(r, "silent")
    ELSE LET foundation == r.foundations[foundationIndex + 1]
             foundationTop == getTopCard(foundation)
         IN IF ~canPlaceOnFoundation(card, foundationTop, foundation.suit)
            THEN Failed(r, "Invalid foundation play")
            ELSE LET r1 == closeZapGracePeriod(r)
                     r2 == removeCardFromSource(r1, fromType, fromIndex)
                     r3 == [r2 EXCEPT !.foundations[foundationIndex + 1].cards = Append(@, card),
                                      !.lastMoveCard = card,
                                      !.lastMoveType = "foundation"]
                 IN Played(startZapGracePeriod(r3))

playToCenter(r, card, centerIndex, fromType, fromIndex) ==
    IF centerIndex < 0 \/ centerIndex >= NumCenterPiles THEN Failed(r, "silent")
    ELSE LET pileTop == getTopCard(r.centerPiles[centerIndex + 1])
         IN IF pileTop # NoCard /\ ~canPlaceOn(card, pileTop)
            THEN Failed(r, "Invalid center play")
            ELSE LET r1 == closeZapGracePeriod(r)
                     r2 == removeCardFromSource(r1, fromType, fromIndex)
                 IN Played([r2 EXCEPT !.centerPiles[centerIndex + 1].cards = Append(@, card)])

playToOpponentDiscard(r, card, fromType, fromIndex) ==
    LET opponent == getOpponent(r)
    IN IF opponent = 0 THEN Failed(r, "silent")
       ELSE LET discardTop == getDiscardTop(r.players[opponent])
            IN IF discardTop = NoCard \/ ~canPlayOnOpponentDiscard(card, discardTop)
               THEN Failed(r, "Invalid opponent discard play")
               ELSE LET r1 == closeZapGracePeriod(r)
                        r2 == removeCardFromSource(r1, fromType, fromIndex)
                    IN Played([r2 EXCEPT !.players[opponent] = addToDiscard(@, card)])

\* playToOwnDiscard without the test of the source type
playToOwnDiscard_AnySource(r, card, fromType, fromIndex) ==
    LET currentPlayer == getPlayerByIndex(r, r.currentPlayer)
    IN IF currentPlayer = 0 THEN [success |-> FALSE, log |-> "silent", room |-> r]
       ELSE LET r1 == closeZapGracePeriod(r)
                r2 == removeCardFromSource(r1, fromType, fromIndex)
                r3 == [r2 EXCEPT !.players[currentPlayer] = addToDiscard(@, card)]
            IN [success |-> TRUE, log |-> "played", room |-> endTurn(r3)]

playToOwnDiscard(r, card, fromType, fromIndex) ==
    IF fromType # "drawn" THEN Failed(r, "Can only discard drawn card")
    ELSE LET currentPlayer == getPlayerByIndex(r, r.currentPlayer)
         IN IF currentPlayer = 0 THEN Failed(r, "silent")
            ELSE LET r1 == closeZapGracePeriod(r)
                     r2 == removeCardFromSource(r1, fromType, fromIndex)
                     r3 == [r2 EXCEPT !.players[currentPlayer] = addToDiscard(@, card)]
                 IN Played(endTurn(r3))

\* getValidSequence: the run of pile.cards from startIndex (0-based), <<>> unless
\* it extends to the end of the pile
RECURSIVE RunLength(_, _)
RunLength(cards, i) ==
    \* number of cards taken from 1-based position i on, given cards[i] is taken
    IF i < Len(cards) /\ canPlaceOn(cards[i + 1], cards[i])
    THEN 1 + RunLength(cards, i + 1)
    ELSE 1

\* getValidSequence that takes the cards from startIndex on as they are
getValidSequence_AnyTail(pile, startIndex) ==
    IF startIndex >= Len(pile.cards) THEN <<>>
    ELSE SubSeq(pile.cards, startIndex + 1, Len(pile.cards))

getValidSequence(pile, startIndex) ==
    IF startIndex >= Len(pile.cards) THEN <<>>
    ELSE LET n == RunLength(pile.cards, startIndex + 1)
         IN IF startIndex + n # Len(pile.cards) THEN <<>>
            ELSE SubSeq(pile.cards, startIndex + 1, startIndex + n)

----
\* Game initialization

\* Math.floor(Math.random() * (i + 1)) of the shuffle, for the random source seed
Rand(seed, i) == (seed * i) % (i + 1)

Swap(deck, a, b) == [deck EXCEPT ![a] = deck[b], ![b] = deck[a]]

RECURSIVE FisherYates(_, _, _)
FisherYates(deck, i, seed) ==
    \* i is the 0-based loop index of the source
    IF i < 1 THEN deck
    ELSE FisherYates(Swap(deck, i + 1, Rand(seed, i) + 1), i - 1, seed)

createShuffledDeck(seed) ==
    LET n == Len(SUITS) * numRanks
        deck == [k \in 1..n |-> [suit |-> SUITS[((k - 1) \div numRanks) + 1],
                                  rank |-> RANKS[((k - 1) % numRanks) + 1]]]
    IN FisherYates(deck, n - 1, seed)

\* startGame from the shuffled deck on
Deal(r, deck) ==
    LET player0 == getPlayerByIndex(r, 0)
        player1 == getPlayerByIndex(r, 1)
    IN IF player0 = 0 \/ player1 = 0 THEN r
       ELSE LET n == Len(deck)
                deck0 == [k \in 1..((n + 1) \div 2) |-> deck[2 * k - 1]]
                deck1 == [k \in 1..(n \div 2) |-> deck[2 * k]]
                \* the pop of round pile (1-based) from a dealt deck, <<>> when empty
                Dealt(d, pile) == IF Len(d) >= pile THEN <<d[Len(d) - pile + 1]>> ELSE <<>>
                Rest(d) == SubSeq(d, 1, Len(d) - NumCenterPiles)
                r1 == [r EXCEPT
                        !.players[player0].deck = Rest(deck0),
                        !.players[player1].deck = Rest(deck1),
                        !.centerPiles = [pile \in 1..NumCenterPiles |->
                            [cards |-> r.centerPiles[pile].cards
                                       \o Dealt(deck0, pile) \o Dealt(deck1, pile)]],
                        !.phase = "playing",
                        !.currentPlayer = 0,
                        !.startTimer = TRUE]
            IN incrementVersion(r1)

startGame(r, seed) == Deal(r, createShuffledDeck(seed))

\* getFullStateJSON without roomCode, sessionId and name.  PlayerSchema has no
\* discardPile and no drawnCard field: the two entries are [] and null
getFullStateJSON(r) ==
    LET PlayerJSON(index) ==
            LET player == getPlayerByIndex(r, index)
            IN [index |-> index,
                deckSize |-> IF player = 0 THEN 0 ELSE Len(r.players[player].deck),
                discardPile |-> <<>>,
                drawnCard |-> NoCard]
    IN [phase |-> r.phase,
        currentPlayer |-> r.currentPlayer,
        version |-> r.stateVersion,
        players |-> <<PlayerJSON(0), PlayerJSON(1)>>,
        centerPiles |-> [i \in 1..NumCenterPiles |-> r.centerPiles[i].cards],
        foundations |-> [i \in 1..NumFoundations |->
                            [suit |-> r.foundations[i].suit,
                             cards |-> r.foundations[i].cards]]]

----
\* Message handlers.  Each gives [room, log]: the room afterwards and the
\* console outcome ("silent" for a return without a message).

Result(r, log) == [room |-> r, log |-> log]

\* this.state.players.get(client.sessionId): the position of the sender, 0 when absent
PlayerOf(r, seat) == IF seat + 1 <= Len(r.players) THEN seat + 1 ELSE 0

\* handleDrawCard without the turn validation
handleDrawCard_NoTurnCheck(r, seat) ==
    LET player == PlayerOf(r, seat)
    IN IF player = 0 THEN Result(r, "silent")
       ELSE IF r.drawnCard # NoCard THEN Result(r, "Already have a drawn card")
       ELSE LET r1 == closeZapGracePeriod(r)
                drawn == drawCard(r1.players[player])
            IN IF drawn.card = NoCard THEN Result(r1, "No cards to draw")
               ELSE Result(incrementVersion([r1 EXCEPT !.players[player] = drawn.player,
                                                       !.drawnCard = drawn.card]),
                           "drew")

\* handleDrawCard without the test for a card already drawn
handleDrawCard_Redraw(r, seat) ==
    LET player == PlayerOf(r, seat)
    IN IF player = 0 THEN Result(r, "silent")
       ELSE IF r.players[player].index # r.currentPlayer THEN Result(r, "Not your turn")
       ELSE LET r1 == closeZapGracePeriod(r)
                drawn == drawCard(r1.players[player])
            IN IF drawn.card = NoCard THEN Result(r1, "No cards to draw")
               ELSE Result(incrementVersion([r1 EXCEPT !.players[player] = drawn.player,
                                                       !.drawnCard = drawn.card]),
                           "drew")

handleDrawCard(r, seat) ==
    LET player == PlayerOf(r, seat)
    IN IF player = 0 THEN Result(r, "silent")
       ELSE IF r.players[player].index # r.currentPlayer THEN Result(r, "Not your turn")
       ELSE IF r.drawnCard # NoCard THEN Result(r, "Already have a drawn card")
       ELSE LET r1 == closeZapGracePeriod(r)
                drawn == drawCard(r1.players[player])
            IN IF drawn.card = NoCard THEN Result(r1, "No cards to draw")
               ELSE Result(incrementVersion([r1 EXCEPT !.players[player] = drawn.player,
                                                       !.drawnCard = drawn.card]),
                           "drew")

handlePlayCard(r, seat, fromType, fromIndex, toType, toIndex) ==
    LET player == PlayerOf(r, seat)
    IN IF player = 0 THEN Result(r, "silent")
       ELSE IF r.players[player].index # r.currentPlayer THEN Result(r, "Not your turn")
       ELSE LET card == getCardFromSource(r, fromType, fromIndex)
            IN IF card = NoCard THEN Result(r, "No card at source")
               ELSE LET played ==
                          CASE toType = "foundation" ->
                                 playToFoundation(r, card, toIndex, fromType, fromIndex)
                            [] toType = "center" ->
                                 playToCenter(r, card, toIndex, fromType, fromIndex)
                            [] toType = "opponentDiscard" ->
                                 playToOpponentDiscard(r, card, fromType, fromIndex)
                            [] toType = "ownDiscard" ->
                                 playToOwnDiscard(r, card, fromType, fromIndex)
                            [] OTHER -> Failed(r, "silent")
                    IN IF ~played.success THEN Result(played.room, played.log)
                       ELSE LET r1 == incrementVersion(
                                        [played.room EXCEPT !.hasMovedThisTurn = TRUE])
                            IN IF checkWin(r1)
                               THEN Result(endGame(r1, r1.currentPlayer,
                                                   "All foundations complete!"), "played")
                               ELSE Result(r1, "played")

handleSequenceMove(r, seat, fromCenter, fromCardIndex, toCenter) ==
    LET player == PlayerOf(r, seat)
    IN IF player = 0 THEN Result(r, "silent")
       ELSE IF r.players[player].index # r.currentPlayer THEN Result(r, "Not your turn")
       ELSE IF fromCenter = toCenter THEN Result(r, "silent")
       ELSE IF fromCenter < 0 \/ fromCenter >= NumCenterPiles
               \/ toCenter < 0 \/ toCenter >= NumCenterPiles THEN Result(r, "silent")
       ELSE LET fromPile == r.centerPiles[fromCenter + 1]
                toPile == r.centerPiles[toCenter + 1]
            IN IF fromCardIndex < 0 \/ fromCardIndex >= Len(fromPile.cards)
               THEN Result(r, "silent")
               ELSE LET sequence == getValidSequence(fromPile, fromCardIndex)
                    IN IF Len(sequence) = 0 THEN Result(r, "silent")
                       ELSE IF getTopCard(toPile) # NoCard
                               /\ ~canPlaceOn(sequence[1], getTopCard(toPile))
                            THEN Result(r, "Invalid sequence move")
                       ELSE LET r1 == closeZapGracePeriod(r)
                                r2 == [r1 EXCEPT
                                        !.centerPiles[fromCenter + 1].cards =
                                            SubSeq(@, 1, fromCardIndex),
                                        !.centerPiles[toCenter + 1].cards =
                                            @ \o SubSeq(fromPile.cards, fromCardIndex + 1,
                                                        fromCardIndex + Len(sequence)),
                                        !.hasMovedThisTurn = TRUE]
                            IN Result(incrementVersion(r2), "moved")

handleZap(r, seat) ==
    LET player == PlayerOf(r, seat)
    IN IF player = 0 THEN Result(r, "silent")
       ELSE IF ~r.zapGracePeriod THEN Result(r, "No ZAP opportunity")
       ELSE IF getPlayerByIndex(r, 1 - r.players[player].index) = 0 THEN Result(r, "silent")
       ELSE Result(incrementVersion(closeZapGracePeriod(r)), "ZAP")

\* onMessage("request_state")
handleRequestState(r, seat) == Result(incrementVersion(r), "applied")

\* onJoin: [room, log]; the throw of a full room leaves the room as it was
\* onJoin without the check of players.size
onJoin_NoLimit(r, seed) ==
    LET playerIndex == Len(r.players)
        r1 == [r EXCEPT !.players = Append(@, NewPlayer(playerIndex))]
        r2 == Broadcast(r1, [type |-> "player_joined", playerIndex |-> playerIndex])
    IN IF Len(r2.players) = 2 THEN Result(startGame(r2, seed), "joined")
       ELSE Result(r2, "joined")

onJoin(r, seed) ==
    IF Len(r.players) >= 2 THEN Result(r, "Room is full")
    ELSE LET playerIndex == Len(r.players)
             r1 == [r EXCEPT !.players = Append(@, NewPlayer(playerIndex))]
             r2 == Broadcast(r1, [type |-> "player_joined", playerIndex |-> playerIndex])
         IN IF Len(r2.players) = 2 THEN Result(startGame(r2, seed), "joined")
            ELSE Result(r2, "joined")

onLeave(r, seat) ==
    LET player == PlayerOf(r, seat)
    IN IF player = 0 THEN Result(r, "left")
       ELSE LET r1 == [r EXCEPT !.players[player].connected = FALSE]
            IN IF r1.phase = "playing" /\ getOpponent(r1) # 0
               THEN Result(endGame(r1, r1.players[getOpponent(r1)].index,
                                   "Opponent disconnected"), "left")
               ELSE Result(r1, "left")

\* the simulation interval: one tick of deltaTime = 1000 ms
updateTimers(r) ==
    IF r.phase # "playing" THEN r
    ELSE LET currentPlayer == getPlayerByIndex(r, r.currentPlayer)
         IN IF currentPlayer = 0 THEN r
            ELSE [r EXCEPT !.players[currentPlayer].timer = @ + 1]

----
\* The relay server (src/server.js): the room registry and the matchmaking queue

Conns == 1..NumConns
NoConn == 0          \* null in a seat of a room
NoCode == <<>>       \* null in ws.roomCode, '' as a code

chars == << "A", "B", "C", "D", "E", "F", "G", "H", "J", "K", "L", "M", "N", "P", "Q", "R",
            "S", "T", "U", "V", "W", "X", "Y", "Z", "2", "3", "4", "5", "6", "7", "8", "9" >>

\* generateRoomCode with the random numbers of source src: the glyph of
\* position i is chars.charAt(Math.floor(Math.random() * chars.length))
generateRoomCode(src) ==
    [i \in 1..CODE_LENGTH |-> chars[((7 * src + 3 * i) % Len(chars)) + 1]]

\* String.prototype.toUpperCase and trim on a text given character by character
UpperCase == << "A", "B", "C", "D", "E", "F", "G", "H", "I", "J", "K", "L", "M",
                "N", "O", "P", "Q", "R", "S", "T", "U", "V", "W", "X", "Y", "Z" >>
LowerCase == << "a", "b", "c", "d", "e", "f", "g", "h", "i", "j", "k", "l", "m",
                "n", "o", "p", "q", "r", "s", "t", "u", "v", "w", "x", "y", "z" >>

toUpperCase(text) ==
    [i \in 1..Len(text) |->
        IF \E k \in 1..Len(LowerCase) : LowerCase[k] = text[i]
        THEN UpperCase[CHOOSE k \in 1..Len(LowerCase) : LowerCase[k] = text[i]]
        ELSE text[i]]

RECURSIVE trim(_)
trim(text) ==
    IF Len(text) = 0 THEN text
    ELSE IF Head(text) = " " THEN trim(Tail(text))
    ELSE IF text[Len(text)] = " " THEN trim(SubSeq(text, 1, Len(text) - 1))
    ELSE text

\* a new connection: wss.on('connection')
NewConn == [readyState |-> 1, roomCode |-> NoCode, isHost |-> FALSE, inMatchmaking |-> FALSE]

\* the server when the connections have been made
NewServer ==
    [ rooms            |-> [code \in {} |-> code],   \* code -> room, for the registered codes
      matchmakingQueue |-> <<>>,
      conns            |-> [ws \in Conns |-> NewConn],
      now              |-> 0,        \* Date.now() - the time of the start, in ms
      handled          |-> 0 ]       \* events handled so far

Registered(s, code) == code \in DOMAIN s.rooms

\* rooms[code] = value
SetRoom(s, code, value) ==
    [s EXCEPT !.rooms = [c \in (DOMAIN s.rooms) \cup {code} |->
                            IF c = code THEN value ELSE s.rooms[c]]]

\* delete rooms[code]
DeleteRoom(s, code) ==
    [s EXCEPT !.rooms = [c \in (DOMAIN s.rooms) \ {code} |-> s.rooms[c]]]

\* The handlers give [server, sent]: the server afterwards and the messages sent
Reply(s, sent) == [server |-> s, sent |-> sent]

\* send(ws, data): the message if the socket is open, nothing otherwise
send(s, ws, data) ==
    IF ws # NoConn /\ s.conns[ws].readyState = 1 THEN <<[to |-> ws, data |-> data]>> ELSE <<>>

sendError(s, ws, message) == send(s, ws, [type |-> "error", message |-> message])

\* matchmakingQueue.indexOf(ws), 1-based, 0 when absent
indexOf(queue, ws) ==
    IF \E i \in 1..Len(queue) : queue[i] = ws
    THEN CHOOSE i \in 1..Len(queue) :
            queue[i] = ws /\ \A j \in 1..(i - 1) : queue[j] # ws
    ELSE 0

removeFromMatchmaking(s, ws) ==
    LET index == indexOf(s.matchmakingQueue, ws)
    IN IF index = 0 THEN s
       ELSE [s EXCEPT !.matchmakingQueue = SubSeq(@, 1, index - 1)
                                              \o SubSeq(@, index + 1, Len(@)),
                      !.conns[ws].inMatchmaking = FALSE]

\* the do-while of handleCreateRoom and handleFindMatch: codes are generated,
\* starting with random source src, until one is not registered; the loop
\* does not end when every code is registered (0 stands for that)
RECURSIVE FreeSource(_, _, _)
FreeSource(s, src, tries) ==
    IF tries = NumCodes THEN 0
    ELSE IF ~Registered(s, generateRoomCode(src)) THEN src
    ELSE FreeSource(s, (src % NumCodes) + 1, tries + 1)

\* the loop that takes the first code generated, registered or not
uniqueCode_FirstDraw(s, src) == generateRoomCode(src)

uniqueCode(s, src) ==
    IF FreeSource(s, src, 0) = 0 THEN NoCode
    ELSE generateRoomCode(FreeSource(s, src, 0))

handleCreateRoom(s, ws, src) ==
    LET s1 == removeFromMatchmaking(s, ws)
        code == uniqueCode(s1, src)
        s2 == SetRoom(s1, code, [code |-> code, host |-> ws, guest |-> NoConn,
                                 createdAt |-> s1.now])
        s3 == [s2 EXCEPT !.conns[ws].roomCode = code, !.conns[ws].isHost = TRUE]
    IN Reply(s3, send(s3, ws, [type |-> "room_created", room_code |-> code]))

\* handleJoinRoom that leaves the matchmaking queue before it looks at the code
handleJoinRoom_LeavesQueueFirst(s, ws, room_code) ==
    LET code == trim(toUpperCase(room_code))
        s0 == removeFromMatchmaking(s, ws)
    IN IF code = NoCode THEN Reply(s0, sendError(s0, ws, "Room code required"))
       ELSE IF ~Registered(s0, code) THEN Reply(s0, sendError(s0, ws, "Room not found"))
       ELSE IF s0.rooms[code].guest # NoConn THEN Reply(s0, sendError(s0, ws, "Room is full"))
       ELSE LET s2 == [s0 EXCEPT !.rooms[code].guest = ws,
                                 !.conns[ws].roomCode = code,
                                 !.conns[ws].isHost = FALSE]
            IN Reply(s2, send(s2, ws, [type |-> "room_joined", room_code |-> code])
                         \o send(s2, s2.rooms[code].host,
                                 [type |-> "player_joined"])
                         \o send(s2, ws, [type |-> "player_joined"]))

handleJoinRoom(s, ws, room_code) ==
    LET code == trim(toUpperCase(room_code))
    IN IF code = NoCode THEN Reply(s, sendError(s, ws, "Room code required"))
       ELSE IF ~Registered(s, code) THEN Reply(s, sendError(s, ws, "Room not found"))
       ELSE IF s.rooms[code].guest # NoConn THEN Reply(s, sendError(s, ws, "Room is full"))
       ELSE LET s1 == removeFromMatchmaking(s, ws)
                s2 == [s1 EXCEPT !.rooms[code].guest = ws,
                                 !.conns[ws].roomCode = code,
                                 !.conns[ws].isHost = FALSE]
            IN Reply(s2, send(s2, ws, [type |-> "room_joined", room_code |-> code])
                         \o send(s2, s2.rooms[code].host,
                                 [type |-> "player_joined"])
                         \o send(s2, ws, [type |-> "player_joined"]))

handleLeaveRoom(s, ws) ==
    LET code == s.conns[ws].roomCode
    IN IF code = NoCode \/ ~Registered(s, code) THEN Reply(s, <<>>)
       ELSE LET entry == s.rooms[code]
                opponent == IF s.conns[ws].isHost THEN entry.guest ELSE entry.host
                sent == send(s, opponent, [type |-> "player_left"])
                s1 == IF s.conns[ws].isHost THEN DeleteRoom(s, code)
                      ELSE [s EXCEPT !.rooms[code].guest = NoConn]
            IN Reply([s1 EXCEPT !.conns[ws].roomCode = NoCode], sent)

\* handleFindMatch that seats the first waiter without looking at its socket
RECURSIVE handleFindMatch_SeatsAnyWaiter(_, _, _)
handleFindMatch_SeatsAnyWaiter(s, ws, src) ==
    LET left == handleLeaveRoom(s, ws)
        s1 == left.server
    IN IF s1.conns[ws].inMatchmaking THEN left
       ELSE IF Len(s1.matchmakingQueue) > 0
       THEN LET opponent == Head(s1.matchmakingQueue)
                s2 == [s1 EXCEPT !.matchmakingQueue = Tail(@)]
                s3 == [s2 EXCEPT !.conns[opponent].inMatchmaking = FALSE]
                code == uniqueCode(s3, src)
                s4 == SetRoom(s3, code, [code |-> code, host |-> opponent, guest |-> ws,
                                         createdAt |-> s3.now])
                s5 == [s4 EXCEPT !.conns[opponent].roomCode = code,
                                 !.conns[opponent].isHost = TRUE,
                                 !.conns[ws].roomCode = code,
                                 !.conns[ws].isHost = FALSE]
            IN Reply(s5, left.sent
                         \o send(s5, opponent, [type |-> "room_created", room_code |-> code])
                         \o send(s5, opponent, [type |-> "player_joined"])
                         \o send(s5, ws, [type |-> "room_joined", room_code |-> code])
                         \o send(s5, ws, [type |-> "player_joined"]))
       ELSE LET s2 == [s1 EXCEPT !.conns[ws].inMatchmaking = TRUE,
                                 !.matchmakingQueue = Append(@, ws)]
            IN Reply(s2, left.sent
                         \o send(s2, ws, [type |-> "matchmaking_waiting",
                                          queue_position |-> Len(s2.matchmakingQueue)]))

\* handleFindMatch that queues the requester behind whoever waits
handleFindMatch_AlwaysQueues(s, ws, src) ==
    LET left == handleLeaveRoom(s, ws)
        s1 == left.server
    IN IF s1.conns[ws].inMatchmaking THEN left
       ELSE LET s2 == [s1 EXCEPT !.conns[ws].inMatchmaking = TRUE,
                                 !.matchmakingQueue = Append(@, ws)]
            IN Reply(s2, left.sent
                         \o send(s2, ws, [type |-> "matchmaking_waiting",
                                          queue_position |-> Len(s2.matchmakingQueue)]))

RECURSIVE handleFindMatch(_, _, _)
handleFindMatch(s, ws, src) ==
    LET left == handleLeaveRoom(s, ws)
        s1 == left.server
    IN IF s1.conns[ws].inMatchmaking THEN left
       ELSE IF Len(s1.matchmakingQueue) > 0
       THEN LET opponent == Head(s1.matchmakingQueue)
                s2 == [s1 EXCEPT !.matchmakingQueue = Tail(@)]
            IN IF s2.conns[opponent].readyState # 1
               THEN LET again == handleFindMatch(s2, ws, src)
                    IN Reply(again.server, left.sent \o again.sent)
               ELSE LET s3 == [s2 EXCEPT !.conns[opponent].inMatchmaking = FALSE]
                        code == uniqueCode(s3, src)
                        s4 == SetRoom(s3, code, [code |-> code, host |-> opponent,
                                                 guest |-> ws, createdAt |-> s3.now])
                        s5 == [s4 EXCEPT !.conns[opponent].roomCode = code,
                                         !.conns[opponent].isHost = TRUE,
                                         !.conns[ws].roomCode = code,
                                         !.conns[ws].isHost = FALSE]
                    IN Reply(s5, left.sent
                                 \o send(s5, opponent,
                                         [type |-> "room_created", room_code |-> code])
                                 \o send(s5, opponent, [type |-> "player_joined"])
                                 \o send(s5, ws, [type |-> "room_joined", room_code |-> code])
                                 \o send(s5, ws, [type |-> "player_joined"]))
       ELSE LET s2 == [s1 EXCEPT !.conns[ws].inMatchmaking = TRUE,
                                 !.matchmakingQueue = Append(@, ws)]
            IN Reply(s2, left.sent
                         \o send(s2, ws, [type |-> "matchmaking_waiting",
                                          queue_position |-> Len(s2.matchmakingQueue)]))

handleCancelMatchmaking(s, ws) ==
    LET s1 == removeFromMatchmaking(s, ws)
    IN Reply(s1, send(s1, ws, [type |-> "matchmaking_cancelled"]))

\* ws.on('close'): the socket is closed by now
handleDisconnect(s, ws) ==
    handleLeaveRoom(removeFromMatchmaking(s, ws), ws)

\* the default case of handleMessage: the message goes to the other seat of
\* the room that ws.roomCode names
relayMessage(s, ws, message) ==
    LET code == s.conns[ws].roomCode
    IN IF code = NoCode \/ ~Registered(s, code) THEN Reply(s, <<>>)
       ELSE LET entry == s.rooms[code]
                opponent == IF s.conns[ws].isHost THEN entry.guest ELSE entry.host
            IN Reply(s, send(s, opponent, message))

\* the callback of the cleanup setInterval
cleanup(s) ==
    [s EXCEPT !.rooms = [code \in {c \in DOMAIN s.rooms :
                                      ~(s.now - s.rooms[c].createdAt > STALE_AFTER)} |->
                            s.rooms[code]]]

----
\* The matchmaking room (MatchmakingRoom of DuoTaireRoom.ts)

Clients == 1..NumClients

NewMatchmaking ==
    [ waitingPlayers |-> <<>>,    \* entries [client, joinedAt], name left out
      playersWaiting |-> 0,       \* this.state.playersWaiting
      calls          |-> {},      \* the calls of tryMatch suspended at an await
      sent           |-> {},      \* [to, type, gone]: the messages of client.send,
                                  \* gone when onLeave of the client came before
      joined         |-> {},      \* the clients onJoin was called for
      left           |-> {},      \* the clients onLeave was called for
      now            |-> 0,       \* Date.now()
      tries          |-> 0 ]      \* calls of tryMatch that found two players

\* client.send(type, ...)
clientSend(m, client, type) ==
    [m EXCEPT !.sent = @ \cup {[to |-> client, type |-> type, gone |-> client \in m.left]}]

Matchmaking_onJoin(m, client, now) ==
    LET m1 == [m EXCEPT !.waitingPlayers = Append(@, [client |-> client, joinedAt |-> now]),
                        !.now = now,
                        !.joined = @ \cup {client}]
        m2 == [m1 EXCEPT !.playersWaiting = Len(m1.waitingPlayers)]
    IN clientSend(m2, client, "matchmaking_status")

Matchmaking_onLeave(m, client) ==
    LET m1 == [m EXCEPT !.waitingPlayers = SelectSeq(@, LAMBDA p : p.client # client),
                        !.left = @ \cup {client}]
    IN [m1 EXCEPT !.playersWaiting = Len(m1.waitingPlayers)]

\* waitingPlayers.sort((a, b) => a.joinedAt - b.joinedAt): Array.prototype.sort
\* is stable
RECURSIVE insertByJoinedAt(_, _)
insertByJoinedAt(sorted, p) ==
    IF sorted = <<>> THEN <<p>>
    ELSE IF Head(sorted).joinedAt <= p.joinedAt
    THEN <<Head(sorted)>> \o insertByJoinedAt(Tail(sorted), p)
    ELSE <<p>> \o sorted

RECURSIVE sortByJoinedAt(_)
sortByJoinedAt(players) ==
    IF players = <<>> THEN <<>>
    ELSE insertByJoinedAt(sortByJoinedAt(SubSeq(players, 1, Len(players) - 1)),
                          players[Len(players)])

\* tryMatch up to its first await: the two oldest players leave the list and
\* the call is suspended in matchMaker.createRoom
tryMatch(m) ==
    IF Len(m.waitingPlayers) < 2 THEN m
    ELSE LET sorted == sortByJoinedAt(m.waitingPlayers)
         IN [m EXCEPT !.waitingPlayers = Tail(Tail(sorted)),
                      !.calls = @ \cup {[player1 |-> sorted[1], player2 |-> sorted[2],
                                         await |-> "createRoom"]},
                      !.tries = @ + 1]

\* the promise a call of tryMatch awaits is fulfilled: the next await, or the
\* two match_found messages
resolved(m, call) ==
    IF call.await = "createRoom"
    THEN [m EXCEPT !.calls = (@ \ {call}) \cup {[call EXCEPT !.await = "reserveSeatFor1"]}]
    ELSE IF call.await = "reserveSeatFor1"
    THEN [m EXCEPT !.calls = (@ \ {call}) \cup {[call EXCEPT !.await = "reserveSeatFor2"]}]
    ELSE LET m1 == clientSend(m, call.player1.client, "match_found")
             m2 == clientSend(m1, call.player2.client, "match_found")
         IN [m2 EXCEPT !.calls = @ \ {call},
                       !.playersWaiting = Len(m2.waitingPlayers)]

\* the promise is rejected: the catch block of tryMatch
rejected(m, call) ==
    LET m1 == [m EXCEPT !.waitingPlayers = <<call.player1, call.player2>> \o @,
                        !.calls = @ \ {call}]
        m2 == clientSend(m1, call.player1.client, "matchmaking_error")
    IN clientSend(m2, call.player2.client, "matchmaking_error")

\* DuoTaireRoom.onCreate: the room with the code of the options or, without
\* one, DuoTaireState.generateRoomCode() (the same six draws from the same glyphs)
onCreate(options, src) ==
    [NewRoom EXCEPT !.roomCode = IF options.roomCode # NoCode THEN options.roomCode
                                 ELSE generateRoomCode(src)]

----
\* The state machine

Init ==
    /\ numRanks \in DealtRanks
    /\ room = onCreate([roomCode |-> NoCode], 1)
    /\ server = NewServer
    /\ matchmaking = NewMatchmaking

\* the room as a callback finds it: nothing broadcast yet
Fresh == [room EXCEPT !.broadcasts = <<>>]

\* the bound on the run
Deliverable == room.stateVersion < MaxVersion

\* a client that has joined and not left
Connected(seat) == seat + 1 <= Len(room.players) /\ room.players[seat + 1].connected

Join ==
    /\ Deliverable
    /\ \E seed \in 0..(NumSeeds - 1) :
         LET res == onJoin(Fresh, seed)
         IN room' = res.room
    /\ UNCHANGED <<numRanks, server, matchmaking>>

Leave(seat) ==
    /\ Deliverable
    /\ Connected(seat)
    /\ LET res == onLeave(Fresh, seat)
       IN room' = res.room
    /\ UNCHANGED <<numRanks, server, matchmaking>>

DrawCard(seat) ==
    /\ Deliverable
    /\ Connected(seat)
    /\ LET res == handleDrawCard(Fresh, seat)
       IN room' = res.room
    /\ UNCHANGED <<numRanks, server, matchmaking>>

PlayCard(seat, fromType, fromIndex, toType, toIndex) ==
    /\ Deliverable
    /\ Connected(seat)
    /\ LET res == handlePlayCard(Fresh, seat, fromType, fromIndex, toType, toIndex)
       IN room' = res.room
    /\ UNCHANGED <<numRanks, server, matchmaking>>

SequenceMove(seat, fromCenter, fromCardIndex, toCenter) ==
    /\ Deliverable
    /\ Connected(seat)
    /\ LET res == handleSequenceMove(Fresh, seat, fromCenter, fromCardIndex, toCenter)
       IN room' = res.room
    /\ UNCHANGED <<numRanks, server, matchmaking>>

Zap(seat) ==
    /\ Deliverable
    /\ Connected(seat)
    /\ LET res == handleZap(Fresh, seat)
       IN room' = res.room
    /\ UNCHANGED <<numRanks, server, matchmaking>>

RequestState(seat) ==
    /\ Deliverable
    /\ Connected(seat)
    /\ LET res == handleRequestState(Fresh, seat)
       IN room' = res.room
    /\ UNCHANGED <<numRanks, server, matchmaking>>

\* total turn time accumulated so far, in ticks
Ticks == IF Len(room.players) = 0 THEN 0
         ELSE IF Len(room.players) = 1 THEN room.players[1].timer
         ELSE room.players[1].timer + room.players[2].timer

Tick ==
    /\ Deliverable
    /\ Ticks < MaxTicks
    /\ room' = updateTimers(Fresh)
    /\ UNCHANGED <<numRanks, server, matchmaking>>

\* time passes up to the deadline of the pending zapTimer timeout
Elapse ==
    /\ room.zapTimer
    /\ room.zapGraceEndTime > 0
    /\ room' = [room EXCEPT !.zapGraceEndTime = 0]
    /\ UNCHANGED <<numRanks, server, matchmaking>>

\* the zapTimer timeout fires: at its deadline or any time after it
ZapExpire ==
    /\ Deliverable
    /\ room.zapTimer
    /\ room.zapGraceEndTime = 0
    /\ room' = closeZapGracePeriod(Fresh)
    /\ UNCHANGED <<numRanks, server, matchmaking>>

\* the 500 ms timeout of startGame fires
GameStarted ==
    /\ Deliverable
    /\ room.startTimer
    /\ room' = Broadcast([Fresh EXCEPT !.startTimer = FALSE],
                         [type |-> "game_started", state |-> getFullStateJSON(Fresh)])
    /\ UNCHANGED <<numRanks, server, matchmaking>>

Next ==
    \/ Join
    \/ \E seat \in Seats : Leave(seat)
    \/ \E seat \in Seats : DrawCard(seat)
    \/ \E seat \in Seats, fromType \in FromTypes, toType \in ToTypes :
         \E fromIndex \in FromIndices(fromType), toIndex \in ToIndices(toType) :
            PlayCard(seat, fromType, fromIndex, toType, toIndex)
    \/ \E seat \in Seats, fromCenter \in PileIndices, fromCardIndex \in CardIndices,
          toCenter \in PileIndices :
            SequenceMove(seat, fromCenter, fromCardIndex, toCenter)
    \/ \E seat \in Seats : Zap(seat)
    \/ \E seat \in Seats : RequestState(seat)
    \/ Tick
    \/ Elapse
    \/ ZapExpire
    \/ GameStarted

Spec == Init /\ [][Next]_vars

----
\* The relay server as a state machine: one action for each message type of
\* handleMessage, for the close of a socket, and for the cleanup interval

\* String.prototype.toLowerCase, to spell the codes as a client may type them
toLowerCase(text) ==
    [i \in 1..Len(text) |->
        IF \E k \in 1..Len(UpperCase) : UpperCase[k] = text[i]
        THEN LowerCase[CHOOSE k \in 1..Len(UpperCase) : UpperCase[k] = text[i]]
        ELSE text[i]]

\* room_code of a join_room and roomCode of the options of a game room: none,
\* blank, a code as generated, and a code in small letters between blanks
BlankTexts == {NoCode, <<" ">>}
Spellings(code) == {code, <<" ">> \o toLowerCase(code) \o <<" ">>}
ClientTexts == BlankTexts \cup UNION {Spellings(generateRoomCode(src)) : src \in 1..NumCodes}

InitServer ==
    /\ numRanks = MaxRanks
    /\ room = onCreate([roomCode |-> NoCode], 1)
    /\ server = NewServer
    /\ matchmaking = NewMatchmaking

Open(ws) == server.conns[ws].readyState = 1

\* the bound on the run, and the server after one more event
Pending == server.handled < MaxEvents
After(s) == [s EXCEPT !.handled = @ + 1]

\* the do-while of the handler has ended: no room is registered without a code
Returned(res) == ~Registered(res.server, NoCode)

CreateRoom(ws, src) ==
    /\ Pending
    /\ Open(ws)
    /\ LET res == handleCreateRoom(server, ws, src)
       IN Returned(res) /\ server' = After(res.server)
    /\ UNCHANGED <<numRanks, room, matchmaking>>

JoinRoom(ws, room_code) ==
    /\ Pending
    /\ Open(ws)
    /\ server' = After(handleJoinRoom(server, ws, room_code).server)
    /\ UNCHANGED <<numRanks, room, matchmaking>>

LeaveRoom(ws) ==
    /\ Pending
    /\ Open(ws)
    /\ server' = After(handleLeaveRoom(server, ws).server)
    /\ UNCHANGED <<numRanks, room, matchmaking>>

FindMatch(ws, src) ==
    /\ Pending
    /\ Open(ws)
    /\ LET res == handleFindMatch(server, ws, src)
       IN Returned(res) /\ server' = After(res.server)
    /\ UNCHANGED <<numRanks, room, matchmaking>>

\* a message of any other type
Relay(ws) ==
    /\ Pending
    /\ Open(ws)
    /\ server' = After(relayMessage(server, ws, [type |-> "move"]).server)
    /\ UNCHANGED <<numRanks, room, matchmaking>>

CancelMatchmaking(ws) ==
    /\ Pending
    /\ Open(ws)
    /\ server' = After(handleCancelMatchmaking(server, ws).server)
    /\ UNCHANGED <<numRanks, room, matchmaking>>

\* the socket closes (readyState CLOSING); its close event is still to come
Close(ws) ==
    /\ Pending
    /\ Open(ws)
    /\ server' = After([server EXCEPT !.conns[ws].readyState = 2])
    /\ UNCHANGED <<numRanks, room, matchmaking>>

\* the close event (readyState CLOSED)
Disconnect(ws) ==
    /\ Pending
    /\ server.conns[ws].readyState = 2
    /\ server' = After(handleDisconnect([server EXCEPT !.conns[ws].readyState = 3],
                                          ws).server)
    /\ UNCHANGED <<numRanks, room, matchmaking>>

\* more than the cleanup age passes
Age ==
    /\ Pending
    /\ server.now < MaxSweeps * (STALE_AFTER + SWEEP_INTERVAL)
    /\ server' = After([server EXCEPT !.now = @ + STALE_AFTER + SWEEP_INTERVAL])
    /\ UNCHANGED <<numRanks, room, matchmaking>>

Sweep ==
    /\ Pending
    /\ server' = After(cleanup(server))
    /\ UNCHANGED <<numRanks, room, matchmaking>>

\* the messages and the close of sockets
NextServer ==
    \/ \E ws \in Conns, src \in 1..NumCodes : CreateRoom(ws, src)
    \/ \E ws \in Conns, room_code \in ClientTexts : JoinRoom(ws, room_code)
    \/ \E ws \in Conns : LeaveRoom(ws)
    \/ \E ws \in Conns, src \in 1..NumCodes : FindMatch(ws, src)
    \/ \E ws \in Conns : CancelMatchmaking(ws)
    \/ \E ws \in Conns : Relay(ws)
    \/ \E ws \in Conns : Close(ws)
    \/ \E ws \in Conns : Disconnect(ws)

SpecServer == InitServer /\ [][NextServer]_vars

\* the same with the passing of time and the cleanup interval
NextSweep ==
    \/ \E ws \in Conns, src \in 1..NumCodes : CreateRoom(ws, src)
    \/ \E ws \in Conns, room_code \in ClientTexts : JoinRoom(ws, room_code)
    \/ \E ws \in Conns : LeaveRoom(ws)
    \/ \E ws \in Conns, src \in 1..NumCodes : FindMatch(ws, src)
    \/ \E ws \in Conns : CancelMatchmaking(ws)
    \/ \E ws \in Conns : Relay(ws)
    \/ \E ws \in Conns : Close(ws)
    \/ \E ws \in Conns : Disconnect(ws)
    \/ Age
    \/ Sweep

SpecSweep == InitServer /\ [][NextSweep]_vars

\* the servers together: the relay server handles its messages while game
\* rooms are created with the options of a client
ClientOptions == [roomCode : ClientTexts]

OnCreate(options, src) ==
    /\ room' = onCreate(options, src)
    /\ UNCHANGED <<numRanks, server, matchmaking>>

NextCodes ==
    \/ NextServer
    \/ \E options \in ClientOptions, src \in 1..NumCodes : OnCreate(options, src)

SpecCodes == InitServer /\ [][NextCodes]_vars

----
\* The matchmaking room: clients join and leave, the interval calls tryMatch,
\* and the promises of the matchMaker are fulfilled or rejected

InitMatch ==
    /\ numRanks = MaxRanks
    /\ room = onCreate([roomCode |-> NoCode], 1)
    /\ server = NewServer
    /\ matchmaking = NewMatchmaking

\* the calls of tryMatch there can be: two players and the await reached
Players == [client : Clients, joinedAt : 0..NumClients]
Calls ==
    [player1 : Players, player2 : Players,
     await : {"createRoom", "reserveSeatFor1", "reserveSeatFor2"}]

\* a client joins, at the time of the latest event or later
Seek(client, elapsed) ==
    /\ client \notin matchmaking.joined
    /\ matchmaking' = Matchmaking_onJoin(matchmaking, client, matchmaking.now + elapsed)
    /\ UNCHANGED <<numRanks, room, server>>

\* a client that joined leaves or loses its connection
Quit(client) ==
    /\ client \in matchmaking.joined \ matchmaking.left
    /\ matchmaking' = Matchmaking_onLeave(matchmaking, client)
    /\ UNCHANGED <<numRanks, room, server>>

\* the callback of the 500 ms interval
TryMatch ==
    /\ matchmaking.tries < MaxTries
    /\ Len(matchmaking.waitingPlayers) >= 2
    /\ matchmaking' = tryMatch(matchmaking)
    /\ UNCHANGED <<numRanks, room, server>>

Resolve(call) ==
    /\ call \in matchmaking.calls
    /\ matchmaking' = resolved(matchmaking, call)
    /\ UNCHANGED <<numRanks, room, server>>

Reject(call) ==
    /\ call \in matchmaking.calls
    /\ matchmaking' = rejected(matchmaking, call)
    /\ UNCHANGED <<numRanks, room, server>>

NextMatch ==
    \/ \E client \in Clients, elapsed \in 0..1 : Seek(client, elapsed)
    \/ \E client \in Clients : Quit(client)
    \/ TryMatch
    \/ \E call \in Calls : Resolve(call)
    \/ \E call \in Calls : Reject(call)

SpecMatch == InitMatch /\ [][NextMatch]_vars

----
\* PlayerSchema.drawCard tried on every small deck and discard: seat 0 is on
\* turn in a running game and holds the chosen cards, seat 1 holds the rest

\* the sequences of n different cards
Hands(n) ==
    {hand \in [1..n -> {[suit |-> SUITS[s], rank |-> RANKS[k]] :
                           s \in 1..Len(SUITS), k \in 1..numRanks}] :
        \A i, j \in 1..n : i # j => hand[i] # hand[j]}

\* the running game in which seat 0 has that deck and that discard
DrawRoom(deck, discard) ==
    LET held == {deck[i] : i \in 1..Len(deck)} \cup {discard[i] : i \in 1..Len(discard)}
        rest == SelectSeq(createShuffledDeck(0), LAMBDA card : card \notin held)
    IN [NewRoom EXCEPT
          !.phase = "playing",
          !.stateVersion = 1,
          !.players = <<[NewPlayer(0) EXCEPT !.deck = deck, !.discard = discard],
                        [NewPlayer(1) EXCEPT !.deck = rest]>>]

InitDraw ==
    /\ numRanks \in DealtRanks
    /\ \E n \in 0..MaxHand : \E hand \in Hands(n) : \E d \in 0..n :
          room = DrawRoom(SubSeq(hand, 1, d), SubSeq(hand, d + 1, n))
    /\ server = NewServer
    /\ matchmaking = NewMatchmaking

NextDraw ==
    \/ \E seat \in Seats : DrawCard(seat)
    \/ \E seat \in Seats : PlayCard(seat, "drawn", 0, "ownDiscard", 0)

SpecDraw == InitDraw /\ [][NextDraw]_vars

----
\* play_card tried on every pair of cards that the deal can leave on the
\* first center pile

\* the room right after the second join when the shuffle has put those two
\* cards last in the deck: they are dealt to center pile 0
ReplayRoom(hand) ==
    LET held == {hand[i] : i \in 1..Len(hand)}
        rest == SelectSeq(createShuffledDeck(0), LAMBDA card : card \notin held)
        joined == [NewRoom EXCEPT !.players = <<NewPlayer(0), NewPlayer(1)>>]
    IN Deal(joined, rest \o hand)

InitReplay ==
    /\ numRanks \in DealtRanks
    /\ \E hand \in Hands(2) : room = ReplayRoom(hand)
    /\ server = NewServer
    /\ matchmaking = NewMatchmaking

NextReplay ==
    \/ \E seat \in Seats : DrawCard(seat)
    \/ \E seat \in Seats, fromType \in FromTypes, toType \in ToTypes :
         \E fromIndex \in FromIndices(fromType), toIndex \in ToIndices(toType) :
            PlayCard(seat, fromType, fromIndex, toType, toIndex)

SpecReplay == InitReplay /\ [][NextReplay]_vars

----
\* Vocabulary of the properties

\* this.state alone: the room without its timers, the clock and the outbox
GameState(r) == [r EXCEPT !.zapTimer = FALSE, !.zapGraceEndTime = 0,
                          !.startTimer = FALSE, !.broadcasts = <<>>]

\* what the client in a seat receives: the snapshot of a game_started message,
\* and the synchronised state, which is every @type field of the schemas for
\* every client (no field carries a filter)
SnapshotView(r, seat) == getFullStateJSON(r)
SyncView(r, seat) == GameState(r)

\* the same room had the other seat's deck been in the opposite order
OtherDeckReversed(r, seat) ==
    [r EXCEPT !.players[2 - seat].deck = [k \in 1..Len(@) |-> @[Len(@) + 1 - k]]]

\* the same room had the other seat drawn the next card of its deck instead
OtherDrawnSwapped(r, seat) ==
    IF r.currentPlayer = seat \/ r.drawnCard = NoCard \/ Len(r.players[2 - seat].deck) = 0
    THEN r
    ELSE [r EXCEPT !.drawnCard = Top(r.players[2 - seat].deck),
                   !.players[2 - seat].deck = Append(Pop(@), r.drawnCard)]

\* console outcomes of an applied draw_card, play_card, sequence_move
MoveLogs == {"drew", "played", "moved"}

\* P holds of the outcome of every draw_card, play_card and sequence_move
\* that the client in that seat can send to the room as it is now
EveryMove(seat, P(_)) ==
    /\ P(handleDrawCard(Fresh, seat))
    /\ \A fromType \in FromTypes, toType \in ToTypes :
         \A fromIndex \in FromIndices(fromType), toIndex \in ToIndices(toType) :
            P(handlePlayCard(Fresh, seat, fromType, fromIndex, toType, toIndex))
    /\ \A fromCenter \in PileIndices, fromCardIndex \in CardIndices, toCenter \in PileIndices :
         P(handleSequenceMove(Fresh, seat, fromCenter, fromCardIndex, toCenter))

\* P holds of the outcome of every play_card of that seat, given with the seat
EveryPlay(seat, P(_)) ==
    \A fromType \in FromTypes, toType \in ToTypes :
       \A fromIndex \in FromIndices(fromType), toIndex \in ToIndices(toType) :
          P(handlePlayCard(Fresh, seat, fromType, fromIndex, toType, toIndex))

\* every card held anywhere in the room, pile after pile
RECURSIVE Flatten(_)
Flatten(seqs) == IF Len(seqs) = 0 THEN <<>> ELSE Head(seqs) \o Flatten(Tail(seqs))

AllCards(r) ==
    (IF r.drawnCard = NoCard THEN <<>> ELSE <<r.drawnCard>>)
    \o Flatten([k \in 1..Len(r.players) |-> r.players[k].deck \o r.players[k].discard])
    \o Flatten([i \in 1..NumCenterPiles |-> r.centerPiles[i].cards])
    \o Flatten([i \in 1..NumFoundations |-> r.foundations[i].cards])

FullDeck == {[suit |-> SUITS[s], rank |-> RANKS[k]] : s \in 1..Len(SUITS), k \in 1..numRanks}

GameOverSent(r) == \E i \in 1..Len(r.broadcasts) : r.broadcasts[i].type = "game_over"

\* every foundation holds a full suit
AllFoundationsFull(r) == \A i \in 1..NumFoundations : Len(r.foundations[i].cards) = numRanks

----
\* C1: when a seat leaves while phase = playing, the game ends with
\* phase = finished and winner = the seat that did not leave, whichever seat
\* is currentPlayer.
C1_LeaveMakesRemainingSeatWinner ==
    [][\A seat \in Seats :
          (room.phase = "playing" /\ Leave(seat))
              => (room'.phase = "finished" /\ room'.winner = 1 - seat)]_vars

\* C2: card conservation: once dealt (phase playing or finished) the cards of
\* the drawn slot, both decks, both discards, the center piles and the
\* foundations are exactly the full deck, each card once.
C2_CardConservation ==
    room.phase \in {"playing", "finished"}
        => /\ Len(AllCards(room)) = Len(SUITS) * numRanks
           /\ {AllCards(room)[i] : i \in 1..Len(AllCards(room))} = FullDeck

\* cards in a drawn slot, a discard and a foundation at the same time
C2_Witness ==
    /\ room.phase = "playing"
    /\ room.drawnCard # NoCard
    /\ \E k \in 1..Len(room.players) : Len(room.players[k].discard) > 0
    /\ \E i \in 1..NumFoundations : Len(room.foundations[i].cards) > 0

\* C3: turn discipline: a draw_card, play_card or sequence_move of the seat
\* that is not currentPlayer is turned away and leaves every field of the
\* room unchanged.
C3_WrongTurnChangesNothing ==
    \A seat \in Seats :
       (Connected(seat) /\ seat # room.currentPlayer)
           => EveryMove(seat, LAMBDA res : res = Result(Fresh, "Not your turn"))

\* the seat that is not on turn is turned away although it has a card to
\* draw, no card is drawn yet and a ZAP window is open that a draw would close
C3_Witness ==
    /\ room.phase = "playing"
    /\ room.zapGracePeriod
    /\ room.drawnCard = NoCard
    /\ \E seat \in Seats :
         /\ Connected(seat)
         /\ seat # room.currentPlayer
         /\ Len(room.players[seat + 1].deck) > 0
         /\ handleDrawCard(Fresh, seat).log = "Not your turn"

\* C4: a rejected draw_card, play_card or sequence_move leaves the whole room
\* state unchanged, zapActive and stateVersion included.
C4_RejectedMoveChangesNothing ==
    \A seat \in Seats :
       Connected(seat)
           => EveryMove(seat, LAMBDA res :
                 res.log \notin MoveLogs => GameState(res.room) = GameState(room))

C6_MovesOnlyWhilePlaying ==
    \A seat \in Seats :
       (Connected(seat) /\ room.phase # "playing")
           => EveryMove(seat, LAMBDA res : GameState(res.room) = GameState(room))

C8_WinDetection ==
    \A seat \in Seats :
       Connected(seat)
           => EveryPlay(seat, LAMBDA res :
                 res.log = "played"
                     => IF AllFoundationsFull(res.room)
                        THEN /\ res.room.phase = "finished"
                             /\ res.room.winner = seat
                             /\ res.room.gameOver
                             /\ GameOverSent(res.room)
                        ELSE /\ res.room.phase = room.phase
                             /\ res.room.winner = room.winner
                             /\ res.room.gameOver = room.gameOver
                             /\ ~GameOverSent(res.room))

\* the play that completed the last foundation has just been applied
C8_Witness ==
    /\ AllFoundationsFull(room)
    /\ GameOverSent(room)
    /\ room.phase = "finished"
    /\ room.winner = room.currentPlayer

\* C9: currentPlayer changes only by an accepted play_card drawn -> ownDiscard,
\* and a play_card center -> ownDiscard is always rejected.
C9_OnlyOwnDiscardEndsTurn ==
    /\ [][room'.currentPlayer # room.currentPlayer
            => \E seat \in Seats :
                  /\ Connected(seat)
                  /\ handlePlayCard(Fresh, seat, "drawn", 0, "ownDiscard", 0)
                        = Result(room', "played")]_vars
    /\ [](\A seat \in Seats, fromIndex \in PileIndices :
            Connected(seat)
                => handlePlayCard(Fresh, seat, "center", fromIndex, "ownDiscard", 0).log
                      # "played")

\* the turn has passed to seat 1 by seat 0's discard of its drawn card, while
\* seat 0 had a center card it could have named instead
C9_Witness ==
    /\ room.phase = "playing"
    /\ room.currentPlayer = 1
    /\ room.drawnCard = NoCard
    /\ Len(room.players[1].discard) > 0
    /\ \E i \in 1..NumCenterPiles : Len(room.centerPiles[i].cards) > 0

\* C10: right after an accepted play_card drawn -> ownDiscard by seat p:
\* currentPlayer = 1 - p, no drawn card, hasMovedThisTurn = false,
\* zapActive = false, and the discarded card tops seat p's discard.
C10_AfterOwnDiscard ==
    \A seat \in Seats :
       LET res == handlePlayCard(Fresh, seat, "drawn", 0, "ownDiscard", 0)
       IN (Connected(seat) /\ res.log = "played")
             => /\ res.room.currentPlayer = 1 - seat
                /\ res.room.drawnCard = NoCard
                /\ res.room.hasMovedThisTurn = FALSE
                /\ res.room.zapGracePeriod = FALSE
                /\ Top(res.room.players[seat + 1].discard) = room.drawnCard

\* C11: right after an accepted draw_card, play_card or sequence_move,
\* zapActive is true exactly when the intent was a play_card onto a
\* foundation; an accepted zap and the expiry of the window leave it false.
C11_ZapWindowOpenClose ==
    /\ [](\A seat \in Seats :
            Connected(seat)
                => /\ handleDrawCard(Fresh, seat).log = "drew"
                         => ~handleDrawCard(Fresh, seat).room.zapGracePeriod
                   /\ \A fromType \in FromTypes, toType \in ToTypes :
                        \A fromIndex \in FromIndices(fromType), toIndex \in ToIndices(toType) :
                           LET res == handlePlayCard(Fresh, seat, fromType, fromIndex,
                                                     toType, toIndex)
                           IN res.log = "played"
                                 => (res.room.zapGracePeriod <=> toType = "foundation")
                   /\ \A fromCenter \in PileIndices, fromCardIndex \in CardIndices,
                         toCenter \in PileIndices :
                           LET res == handleSequenceMove(Fresh, seat, fromCenter,
                                                         fromCardIndex, toCenter)
                           IN res.log = "moved" => ~res.room.zapGracePeriod
                   /\ handleZap(Fresh, seat).log = "ZAP"
                         => ~handleZap(Fresh, seat).room.zapGracePeriod)
    /\ [][ZapExpire => ~room'.zapGracePeriod]_vars

\* a foundation play has just opened the window and the same seat has a card
\* to draw, which closes it
C11_Witness ==
    /\ room.zapGracePeriod
    /\ room.zapGraceEndTime = ZAP_GRACE_PERIOD
    /\ room.lastMoveType = "foundation"
    /\ room.phase = "playing"
    /\ Connected(room.currentPlayer)
    /\ handleDrawCard(Fresh, room.currentPlayer).log = "drew"

\* C12: a zap is accepted only while zapActive is true and from the seat that
\* is not currentPlayer; a zap of currentPlayer, or one sent while zapActive is
\* false, leaves the state and stateVersion unchanged.
C12_ZapOnlyByOpponentInWindow ==
    \A seat \in Seats :
       (Connected(seat) /\ (seat = room.currentPlayer \/ ~room.zapGracePeriod))
           => /\ handleZap(Fresh, seat).log # "ZAP"
              /\ GameState(handleZap(Fresh, seat).room) = GameState(room)

\* C13: zapActive = true implies now < zapDeadline.
C13_ZapActiveBeforeDeadline ==
    room.zapGracePeriod => room.zapGraceEndTime > 0

\* C14: request_state changes no field of the room state, stateVersion included.
C14_RequestStateChangesNothing ==
    \A seat \in Seats :
       Connected(seat)
           => GameState(handleRequestState(Fresh, seat).room) = GameState(room)

\* C15: foundation i holds only cards of its own suit, bottom to top exactly
\* A, 2, 3, ... up to its length, and a foundation never shrinks.
C15_FoundationMonotonicity ==
    /\ [](\A i \in 1..NumFoundations :
            \A k \in 1..Len(room.foundations[i].cards) :
               room.foundations[i].cards[k] = [suit |-> SUITS[i], rank |-> AllRanks[k]])
    /\ [][\A i \in 1..NumFoundations :
            /\ Len(room'.foundations[i].cards) >= Len(room.foundations[i].cards)
            /\ SubSeq(room'.foundations[i].cards, 1, Len(room.foundations[i].cards))
                  = room.foundations[i].cards]_vars

\* one foundation has grown to A, 2 and another one holds its ace
C15_Witness ==
    \E i, j \in 1..NumFoundations :
       /\ i # j
       /\ Len(room.foundations[i].cards) >= 2
       /\ Len(room.foundations[j].cards) >= 1

\* rank and colour of a card as the rules state them
RankOf(card) == CHOOSE k \in 1..Len(AllRanks) : AllRanks[k] = card.rank
IsRed(card) == card.suit \in {"H", "D"}

\* the card a play_card names in the room as it is now
NamedCard(fromType, fromIndex) ==
    IF fromType = "drawn" THEN room.drawnCard
    ELSE Top(room.centerPiles[fromIndex + 1].cards)

\* C16: an accepted play_card satisfies the predicate of its destination:
\* onto a non-empty center pile the card is one rank below the former top and
\* of the other colour; onto the opponent's discard the discard is not empty
\* and the card has the same rank and another suit, or the same suit and a
\* rank one away from the former top.
C16_AcceptedPlayFitsDestination ==
    \A seat \in Seats :
       Connected(seat)
           => \A fromType \in FromTypes : \A fromIndex \in FromIndices(fromType) :
                 /\ \A toIndex \in PileIndices :
                       handlePlayCard(Fresh, seat, fromType, fromIndex, "center", toIndex).log
                             = "played"
                          => LET card == NamedCard(fromType, fromIndex)
                                 top == Top(room.centerPiles[toIndex + 1].cards)
                             IN \/ top = NoCard
                                \/ /\ RankOf(card) = RankOf(top) - 1
                                   /\ IsRed(card) # IsRed(top)
                 /\ handlePlayCard(Fresh, seat, fromType, fromIndex, "opponentDiscard", 0).log
                          = "played"
                       => LET card == NamedCard(fromType, fromIndex)
                              top == Top(room.players[2 - seat].discard)
                          IN /\ top # NoCard
                             /\ \/ card.rank = top.rank /\ card.suit # top.suit
                                \/ /\ card.suit = top.suit
                                   /\ RankOf(card) - RankOf(top) \in {-1, 1}

\* currentPlayer has a card that fits the card its opponent has discarded
C16_Witness ==
    /\ room.phase = "playing"
    /\ Connected(room.currentPlayer)
    /\ \E fromType \in FromTypes : \E fromIndex \in FromIndices(fromType) :
          handlePlayCard(Fresh, room.currentPlayer, fromType, fromIndex,
                         "opponentDiscard", 0).log = "played"

\* C17: drawnCard is set only by an accepted draw_card of currentPlayer made
\* while no card is drawn, a draw_card while a card is drawn is rejected, and
\* whenever currentPlayer changes no card is drawn afterwards.
C17_OneDrawnCard ==
    /\ [][(room'.drawnCard # NoCard /\ room'.drawnCard # room.drawnCard)
            => /\ room.drawnCard = NoCard
               /\ Connected(room.currentPlayer)
               /\ handleDrawCard(Fresh, room.currentPlayer) = Result(room', "drew")]_vars
    /\ [][room'.currentPlayer # room.currentPlayer => room'.drawnCard = NoCard]_vars
    /\ [](room.drawnCard # NoCard
            => \A seat \in Seats :
                  Connected(seat)
                      => /\ handleDrawCard(Fresh, seat).log
                               \in {"Not your turn", "Already have a drawn card"}
                         /\ handleDrawCard(Fresh, seat).room = Fresh)

\* currentPlayer holds a drawn card and still has a card in its deck
C17_Witness ==
    /\ room.phase = "playing"
    /\ room.drawnCard # NoCard
    /\ Connected(room.currentPlayer)
    /\ Len(room.players[room.currentPlayer + 1].deck) > 0

\* the cards of a pile from 0-based position i to the top descend by one rank
\* and alternate in colour
IsRun(cards, i) ==
    \A k \in (i + 1)..(Len(cards) - 1) :
       /\ RankOf(cards[k + 1]) = RankOf(cards[k]) - 1
       /\ IsRed(cards[k + 1]) # IsRed(cards[k])

\* the condition under which sequence_move(fromCenter, fromCardIndex, toCenter)
\* is to be accepted in the room as it is now
SequenceFits(fromCenter, fromCardIndex, toCenter) ==
    /\ fromCenter # toCenter
    /\ fromCenter \in 0..(NumCenterPiles - 1)
    /\ toCenter \in 0..(NumCenterPiles - 1)
    /\ LET source == room.centerPiles[fromCenter + 1].cards
           target == room.centerPiles[toCenter + 1].cards
       IN /\ fromCardIndex \in 0..(Len(source) - 1)
          /\ IsRun(source, fromCardIndex)
          /\ \/ Len(target) = 0
             \/ /\ RankOf(source[fromCardIndex + 1]) = RankOf(Top(target)) - 1
                /\ IsRed(source[fromCardIndex + 1]) # IsRed(Top(target))

\* C18: a sequence_move of currentPlayer is accepted exactly when the piles
\* are distinct and exist, fromCardIdx lies in the source pile, the cards from
\* there to the top form a run and the run's bottom card fits the destination;
\* then exactly those cards go, in order, onto the destination and nothing
\* else moves.
C18_SequenceMove ==
    \A seat \in Seats :
       (Connected(seat) /\ seat = room.currentPlayer)
           => \A fromCenter \in PileIndices, fromCardIndex \in CardIndices,
                 toCenter \in PileIndices :
                 LET res == handleSequenceMove(Fresh, seat, fromCenter, fromCardIndex,
                                               toCenter)
                 IN /\ res.log = "moved"
                          <=> SequenceFits(fromCenter, fromCardIndex, toCenter)
                    /\ res.log = "moved"
                          => LET source == room.centerPiles[fromCenter + 1].cards
                                 target == room.centerPiles[toCenter + 1].cards
                             IN /\ res.room.centerPiles[fromCenter + 1].cards
                                      = SubSeq(source, 1, fromCardIndex)
                                /\ res.room.centerPiles[toCenter + 1].cards
                                      = target \o SubSeq(source, fromCardIndex + 1,
                                                         Len(source))
                                /\ \A i \in 1..NumCenterPiles :
                                      i \notin {fromCenter + 1, toCenter + 1}
                                         => res.room.centerPiles[i] = room.centerPiles[i]
                                /\ res.room.foundations = room.foundations
                                /\ res.room.drawnCard = room.drawnCard
                                /\ \A k \in 1..Len(room.players) :
                                      /\ res.room.players[k].deck = room.players[k].deck
                                      /\ res.room.players[k].discard
                                            = room.players[k].discard

\* currentPlayer has a run of two cards or more that it can move
C18_Witness ==
    /\ room.phase = "playing"
    /\ Connected(room.currentPlayer)
    /\ \E fromCenter \in PileIndices, fromCardIndex \in CardIndices, toCenter \in PileIndices :
         /\ handleSequenceMove(Fresh, room.currentPlayer, fromCenter, fromCardIndex,
                               toCenter).log = "moved"
         /\ Len(room.centerPiles[fromCenter + 1].cards) - fromCardIndex >= 2

\* C19: when draw_card finds the sender's deck empty and n >= 2 cards in its
\* discard, the discard keeps only its former top, the card drawn is the one
\* that was at the bottom of the discard, and the deck holds the others so
\* that later draws follow the order in which they were discarded.
C19_RecycleDrawsBottomFirst ==
    \A seat \in Seats :
       LET player == room.players[seat + 1]
           n == Len(player.discard)
           res == handleDrawCard(Fresh, seat)
       IN (/\ Connected(seat)
           /\ seat = room.currentPlayer
           /\ room.drawnCard = NoCard
           /\ Len(player.deck) = 0
           /\ n >= 2)
             => /\ res.log = "drew"
                /\ res.room.players[seat + 1].discard = <<player.discard[n]>>
                /\ res.room.drawnCard = player.discard[1]
                /\ res.room.players[seat + 1].deck
                      = [k \in 1..(n - 2) |-> player.discard[n - k]]

\* C20: a draw_card of currentPlayer with no card drawn succeeds exactly when
\* the sender's deck is not empty or its discard holds 2 cards or more; then
\* drawnCard is set, deck plus discard lose one card and stateVersion rises by
\* one; otherwise deck, discard and drawnCard are unchanged.
C20_DrawSucceedsIffCards ==
    \A seat \in Seats :
       LET player == room.players[seat + 1]
           res == handleDrawCard(Fresh, seat)
           after == res.room.players[seat + 1]
       IN (Connected(seat) /\ seat = room.currentPlayer /\ room.drawnCard = NoCard)
             => /\ res.log = "drew"
                      <=> (Len(player.deck) > 0 \/ Len(player.discard) >= 2)
                /\ res.log = "drew"
                      => /\ res.room.drawnCard # NoCard
                         /\ \/ \E i \in 1..Len(player.deck) :
                                  player.deck[i] = res.room.drawnCard
                            \/ \E i \in 1..Len(player.discard) :
                                  player.discard[i] = res.room.drawnCard
                         /\ Len(after.deck) + Len(after.discard)
                               = Len(player.deck) + Len(player.discard) - 1
                         /\ res.room.stateVersion = room.stateVersion + 1
                /\ res.log # "drew"
                      => /\ after.deck = player.deck
                         /\ after.discard = player.discard
                         /\ res.room.drawnCard = NoCard

\* seat 0 has discarded a card and is on turn again with an empty deck and a
\* discard of two cards or more: its draw recycles the discard
C20_Witness ==
    /\ room.stateVersion >= 5
    /\ room.currentPlayer = 0
    /\ room.drawnCard = NoCard
    /\ Len(room.players[1].deck) = 0
    /\ Len(room.players[1].discard) >= 2
    /\ handleDrawCard(Fresh, 0).log = "drew"

\* C21: a play_card applied twice in a row, with nothing in between, changes
\* nothing the second time: the state and stateVersion after the second
\* application are those after the first.
C21_ReplayedPlayIsNoOp ==
    \A seat \in Seats :
       (Connected(seat) /\ room.stateVersion + 1 < MaxVersion)
           => \A fromType \in FromTypes, toType \in ToTypes :
                 \A fromIndex \in FromIndices(fromType), toIndex \in ToIndices(toType) :
                    LET first == handlePlayCard(Fresh, seat, fromType, fromIndex,
                                                toType, toIndex)
                        second == handlePlayCard([first.room EXCEPT !.broadcasts = <<>>],
                                                 seat, fromType, fromIndex, toType, toIndex)
                    IN first.log = "played"
                          => GameState(second.room) = GameState(first.room)

\* C22: the game_started message carries the state as it was right after
\* the deal: phase playing, every center pile of exactly 2 cards and both
\* decks of the dealt size (21 in the source), whatever the room has received
\* between the deal and the broadcast.
C22_GameStartedCarriesTheDeal ==
    \A i \in 1..Len(room.broadcasts) :
       room.broadcasts[i].type = "game_started"
           => LET state == room.broadcasts[i].state
                  dealt == (Len(SUITS) * numRanks) \div 2 - NumCenterPiles
              IN /\ state.phase = "playing"
                 /\ \A pile \in 1..NumCenterPiles : Len(state.centerPiles[pile]) = 2
                 /\ \A k \in 1..2 : state.players[k].deckSize = dealt

\* C23: what a seat receives, snapshot or synchronised state, does not depend
\* on the identity or order of the cards in the other seat's deck nor on the
\* other seat's drawn card, and a seat's own drawn card is in its own view.
C23_HiddenInformation ==
    \A seat \in Seats :
       (Len(room.players) = 2 /\ Connected(seat))
           => /\ SnapshotView(OtherDeckReversed(room, seat), seat) = SnapshotView(room, seat)
              /\ SnapshotView(OtherDrawnSwapped(room, seat), seat) = SnapshotView(room, seat)
              /\ SyncView(OtherDeckReversed(room, seat), seat) = SyncView(room, seat)
              /\ SyncView(OtherDrawnSwapped(room, seat), seat) = SyncView(room, seat)
              /\ (room.currentPlayer = seat /\ room.drawnCard # NoCard)
                    => /\ SnapshotView(room, seat).players[seat + 1].drawnCard
                             = room.drawnCard
                       /\ SyncView(room, seat).drawnCard = room.drawnCard

\* C24: a join_room whose code, once normalised, is empty, is not registered
\* or names a room with its guest seat filled is answered with an error and
\* changes nothing: not the registry, the seats of the room, the sender's
\* roomCode and isHost, nor the matchmaking queue.
C24_FailedJoinChangesNothing ==
    \A ws \in Conns :
       Open(ws)
           => LET Refused(room_code) ==
                      LET res == handleJoinRoom(server, ws, room_code)
                      IN /\ res.server = server
                         /\ Len(res.sent) = 1
                         /\ res.sent[1].to = ws
                         /\ res.sent[1].data.type = "error"
              IN /\ \A room_code \in BlankTexts : Refused(room_code)
                 /\ \A src \in 1..NumCodes :
                       LET code == generateRoomCode(src)
                       IN (~Registered(server, code) \/ server.rooms[code].guest # NoConn)
                             => \A room_code \in Spellings(code) : Refused(room_code)

\* a room has host and guest, and a third connection waits in the
\* matchmaking queue: its join_room with that code is refused
C24_Witness ==
    \E code \in DOMAIN server.rooms, ws \in Conns :
       /\ server.rooms[code].guest # NoConn
       /\ ws \notin {server.rooms[code].host, server.rooms[code].guest}
       /\ Open(ws)
       /\ server.conns[ws].inMatchmaking
       /\ handleJoinRoom(server, ws, toLowerCase(code)).sent[1].data.message = "Room is full"

\* the registry t is the registry s with one room more, under a code that
\* s did not hold, and every room of s as it was
Allocates(s, t) ==
    \E code \in (DOMAIN t.rooms) \ (DOMAIN s.rooms) :
       /\ DOMAIN t.rooms = (DOMAIN s.rooms) \cup {code}
       /\ t.rooms[code].code = code
       /\ \A c \in DOMAIN s.rooms : t.rooms[c] = s.rooms[c]

\* the handler's result pairs ws into a room
Paired(res, ws) ==
    \E i \in 1..Len(res.sent) :
       res.sent[i].to = ws /\ res.sent[i].data.type = "room_joined"

\* C25: create_room and the pairing of find_match never assign a code that is
\* registered: the room they make is one room more in the registry and every
\* other room is as it was; every registered room is stored under its own
\* code, so the codes of the rooms are pairwise distinct.
C25_CodeUniqueness ==
    /\ \A code \in DOMAIN server.rooms : server.rooms[code].code = code
    /\ \A ws \in Conns, src \in 1..NumCodes :
          Open(ws)
              => /\ LET res == handleCreateRoom(server, ws, src)
                    IN Returned(res) => Allocates(server, res.server)
                 /\ LET res == handleFindMatch(server, ws, src)
                    IN Returned(res) /\ Paired(res, ws)
                          => Allocates(handleLeaveRoom(server, ws).server, res.server)

\* a room is registered, a waiter is queued, and the first code drawn for a
\* create_room and for a pairing is the code of the registered room
C25_Witness ==
    \E ws \in Conns, src \in 1..NumCodes :
       /\ Open(ws)
       /\ Registered(server, generateRoomCode(src))
       /\ Returned(handleCreateRoom(server, ws, src))
       /\ Returned(handleFindMatch(server, ws, src))
       /\ Paired(handleFindMatch(server, ws, src), ws)

\* a code of six characters of the 32 glyphs
WellShaped(code) ==
    /\ Len(code) = CODE_LENGTH
    /\ \A i \in 1..Len(code) : \E k \in 1..Len(chars) : code[i] = chars[k]

\* C26: every room that exists, made by create_room, by the pairing of
\* find_match or as a game room with the options of a client, has a code of
\* exactly 6 characters of ABCDEFGHJKLMNPQRSTUVWXYZ23456789.
C26_RoomCodeShape ==
    /\ WellShaped(room.roomCode)
    /\ \A code \in DOMAIN server.rooms :
          WellShaped(code) /\ WellShaped(server.rooms[code].code)

\* the handler's result holds a message of the type for ws
SentTo(res, ws, type) ==
    \E i \in 1..Len(res.sent) : res.sent[i].to = ws /\ res.sent[i].data.type = type

\* the close event of the socket of ws
Disconnected(s, ws) == handleDisconnect([s EXCEPT !.conns[ws].readyState = 3], ws)

\* the room of the code is gone and its guest, if connected, is told
LeftByHost(res, code) ==
    LET guest == server.rooms[code].guest
    IN /\ ~Registered(res.server, code)
       /\ (guest # NoConn /\ Open(guest)) => SentTo(res, guest, "player_left")

\* the room of the code stays with its guest seat empty, its host, if
\* connected, is told, and a join_room with the code succeeds
LeftByGuest(res, code) ==
    LET host == server.rooms[code].host
    IN /\ Registered(res.server, code)
       /\ res.server.rooms[code].guest = NoConn
       /\ Open(host) => SentTo(res, host, "player_left")
       /\ \A ws \in Conns :
             res.server.conns[ws].readyState = 1
                => SentTo(handleJoinRoom(res.server, ws, code), ws, "room_joined")

\* C27: when the host of a registered room sends leave_room or disconnects,
\* the room is removed from the registry and its guest, if any, is sent
\* player_left; when the guest leaves or disconnects, the room stays
\* registered with its guest seat empty, the host is sent player_left and a
\* later join_room with the code succeeds.
C27_LeaveDisposesRoom ==
    \A code \in DOMAIN server.rooms :
       LET host == server.rooms[code].host
           guest == server.rooms[code].guest
       IN /\ Open(host) => LeftByHost(handleLeaveRoom(server, host), code)
          /\ server.conns[host].readyState # 3
                => LeftByHost(Disconnected(server, host), code)
          /\ guest # NoConn
                => /\ Open(guest) => LeftByGuest(handleLeaveRoom(server, guest), code)
                   /\ server.conns[guest].readyState # 3
                         => LeftByGuest(Disconnected(server, guest), code)

\* C28: the sweep of the registry removes a room only if the room is older
\* than 30 minutes and its guest seat is not filled; a room with host and
\* guest seated stays, whatever its age.
C28_SweepKeepsSeatedRooms ==
    \A code \in DOMAIN server.rooms :
       ~Registered(cleanup(server), code)
           => /\ server.now - server.rooms[code].createdAt > STALE_AFTER
              /\ server.rooms[code].guest = NoConn

\* the waiters of the queue whose socket is open, oldest first
LiveWaiters(s) ==
    SelectSeq(s.matchmakingQueue, LAMBDA w : s.conns[w].readyState = 1)

\* the queue after its first waiter with an open socket
RECURSIVE AfterFirstLive(_, _)
AfterFirstLive(s, queue) ==
    IF queue = <<>> THEN <<>>
    ELSE IF s.conns[Head(queue)].readyState = 1 THEN Tail(queue)
    ELSE AfterFirstLive(s, Tail(queue))

\* outcome (a) of find_match: the requester waits, alone in the queue once
\* the waiters without a connection are discarded, and no room is made
Waits(s, res, ws) ==
    /\ res.server.matchmakingQueue = <<ws>>
    /\ res.server.conns[ws].inMatchmaking
    /\ res.server.rooms = s.rooms
    /\ \E i \in 1..Len(res.sent) :
          /\ res.sent[i].to = ws
          /\ res.sent[i].data.type = "matchmaking_waiting"
          /\ res.sent[i].data.queue_position = Len(res.server.matchmakingQueue)
    /\ ~Paired(res, ws)

\* outcome (b) of find_match: the oldest waiter with a connection leaves the
\* queue and is the host of a new room with the requester as its guest
Pairs(s, res, ws) ==
    LET waiter == Head(LiveWaiters(s))
    IN /\ res.server.matchmakingQueue = AfterFirstLive(s, s.matchmakingQueue)
       /\ ~res.server.conns[waiter].inMatchmaking
       /\ ~res.server.conns[ws].inMatchmaking
       /\ Allocates(s, res.server)
       /\ \E code \in (DOMAIN res.server.rooms) \ (DOMAIN s.rooms) :
             /\ res.server.rooms[code].host = waiter
             /\ res.server.rooms[code].guest = ws
             /\ res.server.conns[waiter].roomCode = code
             /\ res.server.conns[ws].roomCode = code
       /\ SentTo(res, waiter, "room_created")
       /\ SentTo(res, ws, "room_joined")
       /\ ~SentTo(res, ws, "matchmaking_waiting")

\* C29: find_match of a connected client that is not queued ends in exactly
\* one of two ways: (a) no waiter with a connection is queued, and the
\* requester is appended to the queue and sent matchmaking_waiting with the
\* size of the queue; (b) the oldest waiter with a connection leaves the queue
\* and a new room is registered with that waiter as host and the requester as
\* guest, both being told. Waiters without a connection are dequeued and
\* discarded, never seated.
C29_FindMatchOutcomes ==
    \A ws \in Conns, src \in 1..NumCodes :
       (Open(ws) /\ ~server.conns[ws].inMatchmaking)
           => LET s == handleLeaveRoom(server, ws).server
                  res == handleFindMatch(server, ws, src)
              IN Returned(res)
                    => IF LiveWaiters(s) = <<>> THEN Waits(s, res, ws)
                       ELSE Pairs(s, res, ws)

\* the queue holds a waiter whose socket is no longer open: the find_match
\* of a connected client discards it and waits, and the find_match of the
\* next client is paired with that client
C29_Witness ==
    \E ws \in Conns, other \in Conns, src \in 1..NumCodes :
       /\ Len(server.matchmakingQueue) = 1
       /\ ~Open(Head(server.matchmakingQueue))
       /\ Open(ws) /\ ~server.conns[ws].inMatchmaking
       /\ Open(other) /\ other # ws
       /\ LET res == handleFindMatch(server, ws, src)
          IN /\ res.server.matchmakingQueue = <<ws>>
             /\ Paired(handleFindMatch(res.server, other, src), other)

\* C30: once onLeave was called for a client of the matchmaking room, the
\* client is not in the waiting list at any later time and is never sent
\* match_found, also when it leaves while tryMatch is suspended in the room
\* creation or a seat reservation, and when that creation then fails.
C30_LeftClientIsGone ==
    /\ \A i \in 1..Len(matchmaking.waitingPlayers) :
          matchmaking.waitingPlayers[i].client \notin matchmaking.left
    /\ \A message \in matchmaking.sent :
          message.type = "match_found" => ~message.gone

\* C31: a game room never has more than two players: the first join gets
\* seat index 0, the second gets seat index 1 and starts the deal, any further
\* join is rejected with "Room is full" and leaves the players and every other
\* field of the state as they were; the seat indices are distinct.
C31_AtMostTwoSeats ==
    /\ Len(room.players) <= 2
    /\ \A k \in 1..Len(room.players) : room.players[k].index = k - 1
    /\ \A seed \in 0..(NumSeeds - 1) :
          LET res == onJoin(Fresh, seed)
          IN IF Len(room.players) >= 2
             THEN res.log = "Room is full" /\ res.room = Fresh
             ELSE /\ res.log = "joined"
                  /\ Len(res.room.players) = Len(room.players) + 1
                  /\ res.room.players[Len(res.room.players)].index = Len(room.players)
                  /\ \A k \in 1..Len(room.players) :
                        res.room.players[k].index = room.players[k].index
                  /\ IF Len(room.players) = 0
                     THEN res.room.phase = "waiting" /\ res.room.centerPiles = room.centerPiles
                     ELSE /\ res.room.phase = "playing"
                          /\ \A pile \in 1..NumCenterPiles :
                                Len(res.room.centerPiles[pile].cards) = 2

\* both seats are taken and a card has been drawn: the join of a third client
\* is rejected
C31_Witness ==
    /\ Len(room.players) = 2
    /\ room.drawnCard # NoCard
    /\ onJoin(Fresh, 0).log = "Room is full"

\* C32: whenever the room is in phase playing both seats are connected: a
\* room whose first player left during phase waiting does not deal and enter
\* playing when a second player joins.
C32_PlayingSeatsConnected ==
    room.phase = "playing"
        => /\ Len(room.players) = 2
           /\ \A k \in 1..Len(room.players) : room.players[k].connected

\* the room is not in phase playing, or the player on turn can end the turn:
\* a card is drawn, or the player's deck is not empty, or the player's
\* discard holds at least 2 cards
CanEndTurn ==
    (room.phase = "playing" /\ getPlayerByIndex(room, room.currentPlayer) # 0)
        => LET player == room.players[getPlayerByIndex(room, room.currentPlayer)]
           IN \/ room.drawnCard # NoCard
              \/ Len(player.deck) > 0
              \/ Len(player.discard) >= 2

\* C33: no turn deadlock: in every state with phase playing the player on
\* turn can end the turn (a card is drawn, or its deck is not empty, or its
\* discard holds at least 2 cards, so that a draw followed by
\* drawn -> ownDiscard is accepted); no step of the game leads from a state
\* in which that is so into a state in which it is not.
C33_NoTurnDeadlock == [][CanEndTurn => CanEndTurn']_vars

\* C34: game_over is never broadcast before game_started: when the callback
\* that broadcasts game_started runs, the game has not been ended (endGame,
\* which broadcasts game_over, has not been called), also when a player
\* leaves right after the second join.
C34_GameStartedBeforeGameOver ==
    (\E i \in 1..Len(room.broadcasts) : room.broadcasts[i].type = "game_started")
        => ~room.gameOver

\* C35: a ZAP expiry timeout is pending exactly when the ZAP window is open
\* (one timeout per room), and every accepted foundation play leaves the
\* timeout with the full 3000 ms to run: the expiry set by an earlier
\* foundation play does not close the window of a later one before the later
\* window's own time has passed.
C35_OneZapTimer ==
    /\ room.zapTimer <=> room.zapGracePeriod
    /\ \A seat \in Seats :
          Connected(seat)
              => \A fromType \in FromTypes :
                    \A fromIndex \in FromIndices(fromType), toIndex \in ToIndices("foundation") :
                       LET res == handlePlayCard(Fresh, seat, fromType, fromIndex,
                                                 "foundation", toIndex)
                       IN res.log = "played"
                             => /\ res.room.zapTimer
                                /\ res.room.zapGracePeriod
                                /\ res.room.zapGraceEndTime = ZAP_GRACE_PERIOD

\* the window of a foundation play is open, its timeout has reached its
\* deadline and has not fired yet, and another foundation play is accepted
C35_Witness ==
    /\ room.zapTimer
    /\ room.zapGraceEndTime = 0
    /\ \E seat \in Seats, fromType \in FromTypes :
          \E fromIndex \in FromIndices(fromType), toIndex \in ToIndices("foundation") :
             /\ Connected(seat)
             /\ handlePlayCard(Fresh, seat, fromType, fromIndex,
                               "foundation", toIndex).log = "played"

\* C36: in every state of the room winner is -1, 0 or 1, and winner is not -1
\* exactly when phase is finished, exactly when gameOver is true.
C36_WinnerPhaseGameOver ==
    /\ room.winner \in {-1, 0, 1}
    /\ (room.winner # -1) <=> (room.phase = "finished")
    /\ (room.phase = "finished") <=> room.gameOver

\* the game has just been ended with seat 1 as the winner
C36_Witness ==
    /\ room.phase = "finished"
    /\ room.gameOver
    /\ room.winner = 1
    /\ GameOverSent(room)

\* C37: in every registered room the host and the guest are different
\* connections: no sequence of create_room, join_room, leave_room, find_match
\* and disconnect seats one connection twice in a room.
C37_HostIsNotGuest ==
    \A code \in DOMAIN server.rooms :
       server.rooms[code].guest # server.rooms[code].host

\* the registered rooms in which the connection is host or guest
SeatedIn(s, ws) ==
    {code \in DOMAIN s.rooms : s.rooms[code].host = ws \/ s.rooms[code].guest = ws}

\* C38: at every instant a connection is host or guest of at most one
\* registered room, and a connection in the matchmaking queue is host or
\* guest of none: create_room or join_room of a connection that is seated in
\* a room does not leave it seated in the old room.
C38_OneRoomPerConnection ==
    \A ws \in Conns :
       /\ Cardinality(SeatedIn(server, ws)) <= 1
       /\ indexOf(server.matchmakingQueue, ws) # 0 => SeatedIn(server, ws) = {}

\* the connections seated in a registered room in which ws is seated
RoomMates(s, ws) ==
    UNION {{s.rooms[code].host, s.rooms[code].guest} : code \in SeatedIn(s, ws)} \ {NoConn}

\* the rooms of the registry that differ between s and t
ChangedRooms(s, t) ==
    {code \in (DOMAIN s.rooms) \cup (DOMAIN t.rooms) :
        \/ code \notin DOMAIN s.rooms
        \/ code \notin DOMAIN t.rooms
        \/ s.rooms[code] # t.rooms[code]}

\* C39: room isolation: a message relayed for a connection goes only to a
\* connection that shares a registered room with it, and leave_room or the
\* disconnect of a connection changes only a room in which it is host or
\* guest, also when the connection still carries the code of a room that its
\* host closed and the code has been given to a new room since.
C39_RoomIsolation ==
    \A ws \in Conns :
       /\ Open(ws)
             => /\ LET res == relayMessage(server, ws, [type |-> "move"])
                   IN \A i \in 1..Len(res.sent) : res.sent[i].to \in RoomMates(server, ws)
                /\ ChangedRooms(server, handleLeaveRoom(server, ws).server)
                      \subseteq SeatedIn(server, ws)
       /\ server.conns[ws].readyState # 3
             => ChangedRooms(server, Disconnected(server, ws).server)
                   \subseteq SeatedIn(server, ws)

\* C40: the matchmaking queue of the relay server never holds more than one
\* connection and never the same connection twice, whatever find_match,
\* cancel_matchmaking, create_room, join_room and disconnect events came; the
\* queue_position of every matchmaking_waiting is 1.
C40_QueueOfOne ==
    /\ Len(server.matchmakingQueue) <= 1
    /\ \A i, j \in 1..Len(server.matchmakingQueue) :
          i # j => server.matchmakingQueue[i] # server.matchmakingQueue[j]
    /\ \A ws \in Conns, src \in 1..NumCodes :
          Open(ws)
              => LET res == handleFindMatch(server, ws, src)
                 IN \A i \in 1..Len(res.sent) :
                       res.sent[i].data.type = "matchmaking_waiting"
                           => res.sent[i].data.queue_position = 1

\* a waiter whose socket is closing is in the queue, and the find_match of
\* another connection is answered with matchmaking_waiting
C40_Witness ==
    /\ server.matchmakingQueue # <<>>
    /\ server.conns[Head(server.matchmakingQueue)].readyState = 2
    /\ \E ws \in Conns, src \in 1..NumCodes :
          /\ Open(ws)
          /\ SentTo(handleFindMatch(server, ws, src), ws, "matchmaking_waiting")

====
